---- MODULE Spec2Model ----
(***************************************************************************)
(* Model of nagare.services.security.oidc_auth: the OpenID-Connect         *)
(* relying-party service (class Authentication).                           *)
(*                                                                         *)
(*   Spec      : the signing key store shared by the request threads       *)
(*               (handle_start, handle_request, fetch_keys).               *)
(*   SeqSpec   : the same, with the calls of fetch_keys made one after     *)
(*               the other.                                                *)
(*   LoginSpec : one login round trip (create_auth_request, then           *)
(*               get_principal on the callback).                           *)
(*                                                                         *)
(* Python values: None is the empty sequence and a value v is <<v>>        *)
(* wherever an attribute may hold None; a str on which the code works      *)
(* character by character is a sequence of one-character strings.          *)
(***************************************************************************)
EXTENDS Integers, Sequences, FiniteSets, TLC

\* ------------------------------------------------------------------ bounds

\* Number of request threads.
NThreads == 2
\* The clock (time.time(), in seconds) runs from StartTime to MaxTime.
StartTime == 2
MaxTime == 5
\* The largest max-age a JWKS response announces.
MaxMaxAge == 1
\* The largest session id and state id of a login.
MaxId == 12
\* The callbacks counted for one state parameter.
MaxUses == 2

\* ------------------------------------------------------------ Python values

None == << >>
Some(v) == << v >>
Val(o) == o[1]

\* Truth value of an Optional[str]: None and '' are false.
TruthyStr(o) == o # None /\ Val(o) # ""
\* Truth value of an Optional[float]: None and 0 are false.
TruthyNum(o) == o # None /\ Val(o) # 0

Digits == <<"0", "1", "2", "3", "4", "5", "6", "7", "8", "9">>
DigitSet == {Digits[i] : i \in 1..10}
DigitVal(c) == (CHOOSE i \in 1..10 : Digits[i] = c) - 1

\* '%d' % n
RECURSIVE FormatNat(_)
FormatNat(n) == IF n < 10 THEN <<Digits[n + 1]>>
                ELSE FormatNat(n \div 10) \o <<Digits[(n % 10) + 1]>>
FormatInt(n) == IF n < 0 THEN <<"-">> \o FormatNat(-n) ELSE FormatNat(n)

\* str.isdigit()
IsDigit(s) == Len(s) > 0 /\ \A i \in 1..Len(s) : s[i] \in DigitSet

RECURSIVE NatOf(_)
NatOf(s) == IF Len(s) = 0 THEN 0
            ELSE 10 * NatOf(SubSeq(s, 1, Len(s) - 1)) + DigitVal(s[Len(s)])

\* str.strip()
RECURSIVE LStrip(_)
LStrip(s) == IF Len(s) > 0 /\ s[1] = " " THEN LStrip(Tail(s)) ELSE s
RECURSIVE RStrip(_)
RStrip(s) == IF Len(s) > 0 /\ s[Len(s)] = " " THEN RStrip(SubSeq(s, 1, Len(s) - 1)) ELSE s
Strip(s) == RStrip(LStrip(s))

\* int(s) for a str (or an int): None stands for ValueError.
ParseInt(s) ==
    LET t == Strip(s)
        signed == Len(t) > 0 /\ t[1] \in {"-", "+"}
        body == IF signed THEN Tail(t) ELSE t
    IN  IF IsDigit(body)
        THEN Some(IF signed /\ t[1] = "-" THEN 0 - NatOf(body) ELSE NatOf(body))
        ELSE None

\* c in s
Contains(s, c) == \E i \in 1..Len(s) : s[i] = c

\* s.split(sep): the pieces between the occurrences of sep (always >= 1).
RECURSIVE SplitFrom(_, _, _)
SplitFrom(s, sep, cur) ==
    IF Len(s) = 0 THEN <<cur>>
    ELSE IF s[1] = sep THEN <<cur>> \o SplitFrom(Tail(s), sep, << >>)
    ELSE SplitFrom(Tail(s), sep, Append(cur, s[1]))
Split(s, sep) == SplitFrom(s, sep, << >>)

\* ---------------------------------------------------------------- threads

\* Thread 0 starts the application (handle_start); the others serve requests.
Main == 0
Workers == 1..NThreads
Threads == {Main} \cup Workers

VARIABLES
    now,              \* time.time()
    issuer,           \* self.issuer
    endpoints,        \* self.endpoints
    jwks_uri,         \* self.jwks_uri
    jwks_expiration,  \* self.jwks_expiration
    jwks_lock,        \* self.jwks_lock: None or the thread holding it
    signing_keys,     \* self.signing_keys: kid -> key material
    pc,               \* where each thread is
    exc,              \* the exception a thread's call ended with
    certs,            \* fetch_keys' local `certs`, of each thread
    outdated,         \* history: a refresh completed since the thread found the keys stale
    lastRefresh       \* history: when and by whom the expiration was last refreshed, and the max-age announced

keyVars == <<now, issuer, endpoints, jwks_uri, jwks_expiration, jwks_lock, signing_keys,
             pc, exc, certs, outdated, lastRefresh>>

VARIABLES
    cookie,           \* whether self.cookie is set (credentials live in a cookie)
    secure,           \* self.secure
    issued,           \* the last authorization request built: its state parameter
    lpc,              \* where get_principal is
    lexc,             \* the exception get_principal ended with
    request,          \* request.params: code and state
    ids,              \* get_principal's parameters session_id and state_id
    session,          \* the host's session of the request
    auth,             \* what is_auth_response returned
    response,         \* request_credentials' local `response`
    credentials,      \* get_principal's local `credentials`
    new_response,     \* get_principal's local `new_response`
    query_string,     \* request.environ['QUERY_STRING'], when request_credentials set it
    logged,           \* what self.logger.error was given
    result,           \* what get_principal returned
    decoded,          \* history: is_auth_response decrypted and unpacked the state
    exchanged         \* history: the token request was sent

loginVars == <<cookie, secure, issued, lpc, lexc, request, ids, session, auth, response,
               credentials, new_response, query_string, logged, result, decoded, exchanged>>

VARIABLES
    discovery,        \* history: the discovery document handle_start laid over the configuration
    uses,             \* history: how many callbacks decoded the state parameter last issued
    consulted,        \* history: where get_principal looked for credentials, in order
    baked,            \* the last call of to_cookie: its arguments and the cookie made
    unbaked,          \* the last call of from_cookie: what it returned
    left              \* the last call of logout: its arguments, the request sent and the result

hostVars == <<discovery, uses, consulted, baked, unbaked, left>>

\* ------------------------------------------------------- the identity provider

\* ENDPOINTS (and REQUIRED_ENDPOINTS) of class Authentication.
REQUIRED_ENDPOINTS == {"authorization_endpoint", "token_endpoint"}
ENDPOINTS == REQUIRED_ENDPOINTS \cup {"discovery_endpoint", "userinfo_endpoint", "end_session_endpoint"}

\* dict.get(k): None when the key is absent.
Get(d, k) == IF k \in DOMAIN d THEN Some(d[k]) ELSE None

\* The object after __init__, for some configurations: every endpoint is a str
\* ('' when it is not configured), no key is known, the expiration is None.
Configured(urls) == [e \in ENDPOINTS |-> IF e \in DOMAIN urls THEN Some(urls[e]) ELSE Some("")]
Configurations ==
    { [endpoints |-> Configured([authorization_endpoint |-> "cfg/auth", token_endpoint |-> "cfg/token"]),
       jwks_uri |-> Some("cfg/jwks"), issuer |-> Some("cfg/issuer")],
      [endpoints |-> Configured([discovery_endpoint |-> "cfg/discovery", end_session_endpoint |-> "cfg/logout"]),
       jwks_uri |-> None, issuer |-> None],
      [endpoints |-> Configured([authorization_endpoint |-> "cfg/auth", token_endpoint |-> "cfg/token"]),
       jwks_uri |-> None, issuer |-> None] }

\* What the discovery endpoint answers: a transport failure, or a JSON document.
DiscoveryDocuments ==
    { [issuer |-> "idp", authorization_endpoint |-> "idp/auth", token_endpoint |-> "idp/token",
       userinfo_endpoint |-> "idp/userinfo", jwks_uri |-> "idp/jwks"],
      [issuer |-> "idp", authorization_endpoint |-> "idp/auth", token_endpoint |-> "idp/token"],
      [token_endpoint |-> "idp/token"] }
DiscoveryResponses == {[ok |-> FALSE]} \cup {[ok |-> TRUE, json |-> d] : d \in DiscoveryDocuments}

\* A JWKS document: the list under 'keys'; a key is its 'kid' (None: no such field)
\* and the rest of its fields.
Jwk(kid, material) == [kid |-> kid, material |-> material]
JwksDocuments ==
    { << >>,
      << Jwk(Some("k1"), "m1") >>,
      << Jwk(Some("k1"), "m2") >>,
      << Jwk(Some("k1"), "m1"), Jwk(Some("k2"), "m2") >>,
      << Jwk(None, "m1") >> }

\* Cache-Control headers of a JWKS response: the header's text (None: the header
\* is absent) and the max-age in seconds it announces (None: it announces none).
MaxAgeName == <<"m", "a", "x", "-", "a", "g", "e">>
MaxAgeHeader(n) == MaxAgeName \o <<"=">> \o FormatInt(n)
CacheControl(text, max_age) == [text |-> text, max_age |-> max_age]
CacheControls ==
    { CacheControl(None, None),
      CacheControl(Some(<<"n", "o", "-", "c", "a", "c", "h", "e">>), None),
      CacheControl(Some(<<"p", "u", "b", "l", "i", "c", ",", " ">> \o MaxAgeHeader(MaxMaxAge)), Some(MaxMaxAge)),
      CacheControl(Some(MaxAgeName \o <<"=", "1", "=", "2">>), None),
      CacheControl(Some(MaxAgeName \o <<"=", "-", "1">>), None) }
    \cup { CacheControl(Some(MaxAgeHeader(n)), Some(n)) : n \in 0..MaxMaxAge }

\* What the JWKS endpoint answers to send_request: a transport failure (no answer,
\* a timeout, a status raise_for_status refuses), or a document; its headers are
\* drawn where fetch_keys reads them.
JwksResponses == {[ok |-> FALSE]} \cup {[ok |-> TRUE, keys |-> d] : d \in JwksDocuments}

\* -------------------------------------------------------- fetch_keys, pure parts

\* {key['kid'] for key in new_keys}: None stands for KeyError.
NewKeysId(new_keys) ==
    IF \E i \in 1..Len(new_keys) : new_keys[i].kid = None THEN None
    ELSE Some({Val(new_keys[i].kid) : i \in 1..Len(new_keys)})

\* {key.pop('kid', None): key for key in new_keys}: the last key of a kid wins.
KeyMapping(new_keys) ==
    [k \in {Val(new_keys[i].kid) : i \in 1..Len(new_keys)} |->
        new_keys[CHOOSE i \in 1..Len(new_keys) :
                    /\ Val(new_keys[i].kid) = k
                    /\ \A j \in (i + 1)..Len(new_keys) : Val(new_keys[j].kid) # k].material]

\* The signing keys after a document was fetched (lines 256-262).
UpdatedKeys(old, new_keys) ==
    IF Val(NewKeysId(new_keys)) # DOMAIN old THEN KeyMapping(new_keys) ELSE old

\* [v.split('=') for v in header.split(',') if '=' in v]
CacheDirectives(header) ==
    LET parts == Split(header, ",")
    IN  [i \in {j \in 1..Len(parts) : Contains(parts[j], "=")} |-> Split(parts[i], "=")]

\* `for k, v in cache_controls` unpacks every directive (else ValueError).
DirectivesUnpack(header) ==
    LET ds == CacheDirectives(header) IN \A i \in DOMAIN ds : Len(ds[i]) = 2

\* {k.strip(): v.strip() for k, v in cache_controls}.get('max-age'): a str, or
\* None when there is no such directive; the last directive of a name wins.
MaxAgeOf(header) ==
    LET ds == CacheDirectives(header)
        hits == {i \in DOMAIN ds : Strip(ds[i][1]) = MaxAgeName}
    IN  IF hits = {} THEN None
        ELSE Some(Strip(ds[CHOOSE i \in hits : \A j \in hits : j <= i][2]))

\* The new jwks_expiration (lines 268-273).
NewExpiration(max_age, time) ==
    IF max_age # None /\ Val(max_age) # << >> /\ IsDigit(Val(max_age))
    THEN Some(time + NatOf(Val(max_age)))
    ELSE None

\* The condition of line 249, read in one piece.
KeysAreStale == TruthyStr(jwks_uri) /\ TruthyNum(jwks_expiration) /\ now > Val(jwks_expiration)

\* ------------------------------------------------------------ the key store

\* No login is under way.
NoLogin ==
    /\ issued = None
    /\ lpc = "idle"
    /\ lexc = "none"
    /\ request = None
    /\ ids = None
    /\ session = None
    /\ auth = None
    /\ response = None
    /\ credentials = << >>
    /\ new_response = None
    /\ query_string = None
    /\ logged = << >>
    /\ result = None
    /\ decoded = FALSE
    /\ exchanged = FALSE

\* Nothing was asked of the service yet.
NoHost ==
    /\ discovery = None
    /\ uses = 0
    /\ consulted = << >>
    /\ baked = None
    /\ unbaked = None
    /\ left = None

Init ==
    /\ NoHost
    /\ cookie = FALSE
    /\ secure = TRUE
    /\ NoLogin
    /\ now = StartTime
    /\ \E c \in Configurations :
          /\ endpoints = c.endpoints
          /\ jwks_uri = c.jwks_uri
          /\ issuer = c.issuer
    /\ jwks_expiration = None
    /\ jwks_lock = None
    /\ signing_keys = << >>
    /\ pc = [t \in Threads |-> "idle"]
    /\ exc = [t \in Threads |-> "none"]
    /\ certs = [t \in Threads |-> None]
    /\ outdated = [t \in Threads |-> FALSE]
    /\ lastRefresh = None

\* time passes
Tick ==
    /\ UNCHANGED loginVars
    /\ UNCHANGED hostVars
    /\ now < MaxTime
    /\ now' = now + 1
    /\ UNCHANGED <<issuer, endpoints, jwks_uri, jwks_expiration, jwks_lock, signing_keys,
                   pc, exc, certs, outdated, lastRefresh>>

\* The call of thread t ends with exception e, which leaves fetch_keys and then
\* handle_start or handle_request: nothing in them catches it.
Raise(t, e) ==
    /\ pc' = [pc EXCEPT ![t] = "raised"]
    /\ exc' = [exc EXCEPT ![t] = e]
    /\ outdated' = [outdated EXCEPT ![t] = FALSE]

\* fetch_keys returns: to handle_start's end, or to handle_request's call of the
\* base class.
ReturnFromFetchKeys(t) ==
    /\ pc' = [pc EXCEPT ![t] = IF t = Main THEN "done" ELSE "hr_super"]
    /\ exc' = exc

\* The discovery document laid over the configuration (lines 282-286).
Discovered(r) ==
    [issuer |-> Some(r.issuer),
     endpoints |-> [e \in ENDPOINTS |-> Get(r, e)],
     jwks_uri |-> IF TruthyStr(Get(r, "jwks_uri")) /\ ~TruthyStr(jwks_uri)
                  THEN Get(r, "jwks_uri") ELSE jwks_uri]

\* handle_start, up to its call of fetch_keys (lines 276-292): the discovery
\* request when a discovery endpoint is configured, then the expiration is set in
\* the past. (The error logged for missing endpoints changes no state.)
HandleStart ==
    /\ UNCHANGED loginVars
    /\ UNCHANGED <<uses, consulted, baked, unbaked, left>>
    /\ pc[Main] = "idle"
    /\ UNCHANGED <<now, jwks_lock, signing_keys, certs>>
    /\ IF TruthyStr(endpoints["discovery_endpoint"])
       THEN \E r \in DiscoveryResponses :
               IF ~r.ok
               THEN /\ Raise(Main, "TransportError")
                    /\ UNCHANGED <<issuer, endpoints, jwks_uri, jwks_expiration, lastRefresh, discovery>>
               ELSE IF "issuer" \notin DOMAIN r.json
               THEN /\ Raise(Main, "KeyError")
                    /\ UNCHANGED <<issuer, endpoints, jwks_uri, jwks_expiration, lastRefresh, discovery>>
               ELSE /\ issuer' = Discovered(r.json).issuer
                    /\ endpoints' = Discovered(r.json).endpoints
                    /\ jwks_uri' = Discovered(r.json).jwks_uri
                    /\ discovery' = Some([json |-> r.json, before |-> endpoints])
                    /\ jwks_expiration' = Some(now - 1)
                    /\ lastRefresh' = None
                    /\ pc' = [pc EXCEPT ![Main] = "fk_check"]
                    /\ UNCHANGED <<exc, outdated>>
       ELSE /\ jwks_expiration' = Some(now - 1)
            /\ lastRefresh' = None
            /\ pc' = [pc EXCEPT ![Main] = "fk_check"]
            /\ UNCHANGED <<issuer, endpoints, jwks_uri, exc, outdated, discovery>>

\* handle_request (line 297): a request thread enters fetch_keys. Requests are
\* served once the application has started.
HandleRequest(t) ==
    /\ UNCHANGED loginVars
    /\ UNCHANGED hostVars
    /\ pc[Main] = "done"
    /\ pc[t] \in {"idle", "done", "raised"}
    /\ pc' = [pc EXCEPT ![t] = "fk_check"]
    /\ exc' = [exc EXCEPT ![t] = "none"]
    /\ UNCHANGED <<now, issuer, endpoints, jwks_uri, jwks_expiration, jwks_lock, signing_keys,
                   certs, outdated, lastRefresh>>

\* A test that takes keys without an expiration for keys to refresh.
IsConfigured(uri, expiration) == TruthyStr(uri)

\* `self.jwks_uri and self.jwks_expiration` (line 249).
IsConfiguredAndSet(uri, expiration) == TruthyStr(uri) /\ TruthyNum(expiration)

\* Line 249, first two operands.
FetchKeysCheck(t) ==
    /\ UNCHANGED loginVars
    /\ UNCHANGED hostVars
    /\ pc[t] = "fk_check"
    /\ IF IsConfiguredAndSet(jwks_uri, jwks_expiration)
       THEN pc' = [pc EXCEPT ![t] = "fk_compare"] /\ exc' = exc
       ELSE ReturnFromFetchKeys(t)
    /\ UNCHANGED <<now, issuer, endpoints, jwks_uri, jwks_expiration, jwks_lock, signing_keys,
                   certs, outdated, lastRefresh>>

\* A staleness test that also fires at the very second of the expiration.
IsAtOrAfter(time, e) == IF e = None THEN None ELSE Some(time >= Val(e))

\* time.time() > e for the expiration e just read (line 249): None stands for the
\* TypeError of comparing a float with None.
IsAfter(time, e) == IF e = None THEN None ELSE Some(time > Val(e))

\* Line 249, last operand: `time.time() > self.jwks_expiration`, a second read of
\* the attribute.
FetchKeysCompare(t) ==
    /\ UNCHANGED loginVars
    /\ UNCHANGED hostVars
    /\ pc[t] = "fk_compare"
    /\ LET stale == IsAfter(now, jwks_expiration)
       IN  IF stale = None
           THEN Raise(t, "TypeError")
           ELSE IF Val(stale)
           THEN /\ pc' = [pc EXCEPT ![t] = "fk_lock"]
                /\ UNCHANGED <<exc, outdated>>
           ELSE ReturnFromFetchKeys(t) /\ outdated' = outdated
    /\ UNCHANGED <<now, issuer, endpoints, jwks_uri, jwks_expiration, jwks_lock, signing_keys,
                   certs, lastRefresh>>

\* Line 250: `with self.jwks_lock`, which blocks while another thread holds it.
FetchKeysLock(t) ==
    /\ UNCHANGED loginVars
    /\ UNCHANGED hostVars
    /\ pc[t] = "fk_lock"
    /\ jwks_lock = None
    /\ jwks_lock' = Some(t)
    /\ pc' = [pc EXCEPT ![t] = "fk_send"]
    /\ UNCHANGED <<now, issuer, endpoints, jwks_uri, jwks_expiration, signing_keys,
                   exc, certs, outdated, lastRefresh>>

\* A lock that an exception leaves held.
LockLeftHeld(lock) == lock

\* The lock after an exception has left the `with self.jwks_lock` block (line 250).
LockAfterRaise(lock) == None

\* A fetch that clears the mapping before it has an answer.
KeysClearedBeforeFetch(keys) == << >>

\* The signing keys when send_request raises in fetch_keys (line 252): no
\* statement of the block has run.
KeysAfterFailedFetch(keys) == keys

\* Lines 252 and 184-195: the GET of the JWKS document. A transport error leaves
\* the `with` block, which releases the lock, and fetch_keys.
FetchKeysSend(t) ==
    /\ UNCHANGED loginVars
    /\ UNCHANGED hostVars
    /\ pc[t] = "fk_send"
    /\ \E r \in JwksResponses :
          IF r.ok
          THEN /\ certs' = [certs EXCEPT ![t] = Some(r)]
               /\ pc' = [pc EXCEPT ![t] = "fk_keys"]
               /\ UNCHANGED <<exc, jwks_lock, signing_keys, outdated>>
          ELSE /\ Raise(t, "TransportError")
               /\ jwks_lock' = LockAfterRaise(jwks_lock)
               /\ signing_keys' = KeysAfterFailedFetch(signing_keys)
               /\ certs' = certs
    /\ UNCHANGED <<now, issuer, endpoints, jwks_uri, jwks_expiration, lastRefresh>>

\* Lines 254-262: the key ids are compared and the mapping replaced.
FetchKeysUpdate(t) ==
    /\ UNCHANGED loginVars
    /\ UNCHANGED hostVars
    /\ pc[t] = "fk_keys"
    /\ LET new_keys == Val(certs[t]).keys
       IN  IF NewKeysId(new_keys) = None
           THEN /\ Raise(t, "KeyError")
                /\ jwks_lock' = LockAfterRaise(jwks_lock)
                /\ certs' = [certs EXCEPT ![t] = None]
                /\ signing_keys' = signing_keys
           ELSE /\ signing_keys' = UpdatedKeys(signing_keys, new_keys)
                /\ pc' = [pc EXCEPT ![t] = "fk_expire"]
                /\ UNCHANGED <<exc, jwks_lock, certs, outdated>>
    /\ UNCHANGED <<now, issuer, endpoints, jwks_uri, jwks_expiration, lastRefresh>>

\* Lines 264-273: the expiration is computed from the response's Cache-Control;
\* the lock is released on the way out. (History: the threads waiting for the
\* lock found the keys stale before this refresh.)
FetchKeysExpire(t) ==
    /\ UNCHANGED loginVars
    /\ UNCHANGED hostVars
    /\ pc[t] = "fk_expire"
    /\ \E h \in CacheControls :
          IF h.text = None
          THEN Raise(t, "KeyError") /\ UNCHANGED <<jwks_expiration, lastRefresh>>
          ELSE IF ~DirectivesUnpack(Val(h.text))
          THEN Raise(t, "ValueError") /\ UNCHANGED <<jwks_expiration, lastRefresh>>
          ELSE /\ jwks_expiration' = NewExpiration(MaxAgeOf(Val(h.text)), now)
               /\ lastRefresh' = Some([at |-> now, max_age |-> h.max_age, by |-> t])
               /\ outdated' = [u \in Threads |-> pc[u] = "fk_lock"]
               /\ ReturnFromFetchKeys(t)
    /\ jwks_lock' = None
    /\ certs' = [certs EXCEPT ![t] = None]
    /\ UNCHANGED <<now, issuer, endpoints, jwks_uri, signing_keys>>

\* Line 298: the base class handles the request (LoginSpec has get_principal).
HandleRequestSuper(t) ==
    /\ UNCHANGED loginVars
    /\ UNCHANGED hostVars
    /\ pc[t] = "hr_super"
    /\ pc' = [pc EXCEPT ![t] = "done"]
    /\ UNCHANGED <<now, issuer, endpoints, jwks_uri, jwks_expiration, jwks_lock, signing_keys,
                   exc, certs, outdated, lastRefresh>>

FetchKeys(t) ==
    \/ FetchKeysCheck(t)
    \/ FetchKeysCompare(t)
    \/ FetchKeysLock(t)
    \/ FetchKeysSend(t)
    \/ FetchKeysUpdate(t)
    \/ FetchKeysExpire(t)

vars == <<keyVars, loginVars, hostVars>>

Next ==
    \/ Tick
    \/ HandleStart
    \/ \E t \in Threads : FetchKeys(t)
    \/ \E t \in Workers : HandleRequest(t)
    \/ \E t \in Workers : HandleRequestSuper(t)

Spec == Init /\ [][Next]_vars

\* The calls of fetch_keys made one after the other: a request is taken up only
\* when no other thread is serving one.
HandleRequestAlone(t) ==
    /\ \A u \in Workers \ {t} : pc[u] \in {"idle", "done", "raised"}
    /\ HandleRequest(t)

SeqNext ==
    \/ Tick
    \/ HandleStart
    \/ \E t \in Threads : FetchKeys(t)
    \/ \E t \in Workers : HandleRequestAlone(t)
    \/ \E t \in Workers : HandleRequestSuper(t)

SeqSpec == Init /\ [][SeqNext]_vars

\* A started service whose keys went stale a second ago: handle_start fetched
\* them with max-age=0 at StartTime - 1.
StaleInit ==
    /\ NoHost
    /\ cookie = FALSE
    /\ secure = TRUE
    /\ NoLogin
    /\ now = StartTime
    /\ endpoints = Configured([authorization_endpoint |-> "cfg/auth", token_endpoint |-> "cfg/token"])
    /\ jwks_uri = Some("cfg/jwks")
    /\ issuer = Some("cfg/issuer")
    /\ jwks_expiration = Some(StartTime - 1)
    /\ jwks_lock = None
    /\ signing_keys \in {KeyMapping(d) : d \in {e \in JwksDocuments : NewKeysId(e) # None}}
    /\ pc = [t \in Threads |-> IF t = Main THEN "done" ELSE "idle"]
    /\ exc = [t \in Threads |-> "none"]
    /\ certs = [t \in Threads |-> None]
    /\ outdated = [t \in Threads |-> FALSE]
    /\ lastRefresh = Some([at |-> StartTime - 1, max_age |-> Some(0), by |-> Main])

\* The request threads contend for the keys within one second.
FairNext ==
    \/ \E t \in Workers : HandleRequest(t)
    \/ \E t \in Workers : FetchKeys(t)
    \/ \E t \in Workers : HandleRequestSuper(t)

\* The contending threads under a fair scheduler: a thread inside fetch_keys goes
\* on, and a thread that waits for the lock gets it if the lock is free again and
\* again.
FairSpec ==
    /\ StaleInit /\ [][FairNext]_vars
    /\ \A t \in Workers : WF_vars(FetchKeys(t)) /\ SF_vars(FetchKeysLock(t))

\* ------------------------------------------------------- claims, key store

\* Thread t sends the JWKS request in this step.
Fetches(t) == pc[t] = "fk_send" /\ pc'[t] # "fk_send"
\* Thread t returns from fetch_keys in this step without having sent one.
Skips(t) == pc[t] \in {"fk_check", "fk_compare"} /\ pc'[t] \in {"done", "hr_super"}
\* The last refresh announced a max-age, and that many seconds have passed since.
MaxAgeElapsed == now > Val(lastRefresh).at + Val(Val(lastRefresh).max_age)
MaxAgeKnown == lastRefresh # None /\ Val(lastRefresh).max_age # None

\* C1: when several threads call fetch_keys while the key set is stale, one JWKS
\* fetch is made in all: no thread fetches the document although a refresh has
\* completed since it found the keys stale and the keys are fresh.
C1_SingleFetch ==
    \A t \in Threads : (pc[t] = "fk_keys" /\ outdated[t]) => KeysAreStale

\* C2: a call of fetch_keys (the calls made one after the other) sends the JWKS
\* request if and only if a JWKS URL is configured, an expiration is set and the
\* time exceeds it; after a refresh that announced max-age=M, a call sends no
\* request until M seconds have passed, and sends one once they have.
C2_FetchIffStale ==
    [][\A t \in Threads :
          /\ Fetches(t) => KeysAreStale /\ (MaxAgeKnown => MaxAgeElapsed)
          /\ Skips(t) => ~KeysAreStale /\ (MaxAgeKnown => ~MaxAgeElapsed)]_vars

\* C2, witness: MaxMaxAge seconds after a refresh that announced max-age=MaxMaxAge,
\* a request thread has fetched the document again.
C2_Witness ==
    \E t \in Workers :
        /\ pc[t] = "fk_keys"
        /\ MaxAgeKnown
        /\ Val(Val(lastRefresh).max_age) = MaxMaxAge
        /\ MaxAgeElapsed

\* C8: a transport error of the JWKS refresh made by handle_request does not
\* leave handle_request.
C8_NoPropagation ==
    \A t \in Workers : ~(pc[t] = "raised" /\ exc[t] = "TransportError")

\* C9: a failed JWKS fetch leaves the signing keys as they were, and the keys
\* change only in the step that installs a fetched document.
C9_ReplaceOnSuccess ==
    [][/\ \A t \in Threads : (pc[t] = "fk_send" /\ pc'[t] = "raised") => signing_keys' = signing_keys
       /\ signing_keys' # signing_keys =>
             \E t \in Threads : /\ pc[t] = "fk_keys"
                                /\ pc'[t] = "fk_expire"
                                /\ signing_keys' = KeyMapping(Val(certs[t]).keys)]_vars

\* C9, witness: a request thread's fetch failed while signing keys were known.
C9_Witness ==
    \E t \in Workers : pc[t] = "raised" /\ exc[t] = "TransportError" /\ signing_keys # << >>

\* Thread t ends a refresh: fetch_keys returns after it sent the request.
Refreshed(t) == pc[t] = "fk_expire" /\ pc'[t] \in {"done", "hr_super"}

\* C13: after each successful JWKS refresh, the signing keys are the mapping from
\* key id to key material of the document that was fetched.
C13_ReplacedOnRefresh ==
    [][\A t \in Threads : Refreshed(t) => signing_keys' = KeyMapping(Val(certs[t]).keys)]_vars

\* The last refresh left no expiration.
NullExpiration == lastRefresh # None /\ jwks_expiration = None
\* Thread t evaluates the condition of fetch_keys.
Checks(t) == pc[t] = "fk_check" /\ pc'[t] # "fk_check"

C18_DiscoveryOverlay ==
    discovery # None =>
        \A e \in ENDPOINTS :
            endpoints[e] = IF e \in DOMAIN Val(discovery).json
                           THEN Some(Val(discovery).json[e])
                           ELSE Val(discovery).before[e]

\* C19: the comparison of the staleness test never meets an expiration that
\* another thread has set to None since the truth test: no call of fetch_keys
\* ends with the TypeError of that comparison.
C19_NoNullRace == \A t \in Threads : ~(pc[t] = "raised" /\ exc[t] = "TypeError")

\* Thread t is inside the `with self.jwks_lock` block.
InBlock(t) == pc[t] \in {"fk_send", "fk_keys", "fk_expire"}
\* An exception takes thread t out of the block.
FailsInBlock(t) == InBlock(t) /\ pc'[t] = "raised"

\* C20: the JWKS lock is held only by a thread inside the block of fetch_keys,
\* whether the block ends well or with an exception; a refresh that fails leaves
\* the expiration as it was, so keys that were stale are still stale; and under
\* a fair scheduler a thread that waits for the lock gets it.
C20_LockReleased ==
    /\ [](\A t \in Threads :
            /\ jwks_lock = Some(t) => InBlock(t)
            /\ InBlock(t) => jwks_lock = Some(t))
    /\ [][\A t \in Threads :
            FailsInBlock(t) =>
                /\ jwks_expiration' = jwks_expiration
                /\ ~outdated[t] => KeysAreStale']_vars
    /\ \A t \in Threads : (pc[t] = "fk_lock") ~> (pc[t] = "fk_send")

\* C20, witness: a refresh has failed inside the block and another thread holds
\* the lock.
C20_Witness ==
    \E t, u \in Workers :
        /\ t # u
        /\ pc[u] = "raised" /\ exc[u] \in {"TransportError", "KeyError", "ValueError"}
        /\ pc[t] = "fk_send" /\ jwks_lock = Some(t)

\* ------------------------------------------------------------- the state codec

\* The state parameter is a str in which the ciphertext made by encrypt() stands
\* as one symbol: a character is [ch |-> c] and a ciphertext records the bytes
\* that were encrypted and whether it is as encrypt() made it.
Ch(c) == [ch |-> c]
Str(chars) == [i \in 1..Len(chars) |-> Ch(chars[i])]
IsCiphertext(x) == "ct" \in DOMAIN x

\* self.ident, the name of the service.
Ident == <<"o", "i", "d", "c">>

\* A character outside ASCII.
NonAscii == "U+00E9"

\* cookie_auth's encrypt(): an authenticated ciphertext of the bytes.
Encrypt(plain) == << [ct |-> plain, authentic |-> TRUE] >>

\* cookie_auth's decrypt(): the bytes of a ciphertext encrypt() made; None stands
\* for InvalidToken, raised for anything else.
Decrypt(text) ==
    IF Len(text) = 1 /\ IsCiphertext(text[1]) /\ text[1].authentic
    THEN Some(text[1].ct)
    ELSE None

\* text.encode('ascii') succeeds.
IsAscii(text) == \A i \in 1..Len(text) : IsCiphertext(text[i]) \/ text[i].ch # NonAscii

\* b'%d#%d#%s' % (session_id, state_id, (action_id or '').encode('ascii'))
PackState(session_id, state_id, action_id) ==
    FormatInt(session_id) \o <<"#">> \o FormatInt(state_id) \o <<"#">>
        \o (IF action_id = None THEN << >> ELSE Val(action_id))

\* The 'state' parameter of create_auth_request (line 212).
StateParameter(session_id, state_id, action_id) ==
    Str(<<"#">>) \o Str(Ident) \o Str(<<"#">>) \o Encrypt(PackState(session_id, state_id, action_id))

\* state.split('#', 1)[1]: what follows the first '#'.
AfterFirstHash(state) ==
    LET first == CHOOSE i \in 1..Len(state) :
                    state[i] = Ch("#") /\ \A j \in 1..(i - 1) : state[j] # Ch("#")
    IN  SubSeq(state, first + 1, Len(state))

\* state.rsplit('#', 1)[1], for a state that holds a '#'
AfterLastHash(state) ==
    LET last == CHOOSE i \in 1..Len(state) :
                    state[i] = Ch("#") /\ \A j \in (i + 1)..Len(state) : state[j] # Ch("#")
    IN  SubSeq(state, last + 1, Len(state))

\* What is_auth_response returns for a code and a state (lines 305-318).
AuthResponse(code, session_id, state_id, action_id, error, was_decoded) ==
    [code |-> code, session_id |-> session_id, state_id |-> state_id, action_id |-> action_id,
     error |-> error, decoded |-> was_decoded]

\* is_auth_response (lines 304-318). error names the exception that leaves it;
\* decoded tells whether the state was decrypted and unpacked.
IsAuthResponse(params) ==
    LET state == IF params.state = None THEN << >> ELSE Val(params.state)
        code == params.code
    IN  IF TruthyStr(code) /\ Len(state) > 0 /\ state[1] = Ch("#")
        THEN LET token == AfterLastHash(state)
             IN  IF ~IsAscii(token)
                 THEN AuthResponse(code, 0, 0, << >>, "UnicodeEncodeError", FALSE)
                 ELSE IF Decrypt(token) = None
                 THEN AuthResponse(None, 0, 0, << >>, "none", FALSE)
                 ELSE LET parts == Split(Val(Decrypt(token)), "#")
                      IN  IF Len(parts) # 3
                          THEN AuthResponse(code, 0, 0, << >>, "ValueError", FALSE)
                          ELSE IF ParseInt(parts[1]) = None \/ ParseInt(parts[2]) = None
                          THEN AuthResponse(code, 0, 0, << >>, "ValueError", FALSE)
                          ELSE AuthResponse(code, Val(ParseInt(parts[1])), Val(ParseInt(parts[2])),
                                            parts[3], "none", TRUE)
        ELSE AuthResponse(code, 0, 0, << >>, "none", FALSE)

\* ------------------------------------------------------------- login, inputs

Ids == {0, MaxId}
\* The action id of a login: none, or the id of a registered callback.
ActionIds == {None, Some(<< >>), Some(<<"_", "a", "7">>)}

Codes == {None, Some(""), Some("code")}

\* The state parameters a callback may carry: none, the one issued, the one
\* issued with its ciphertext altered, and text that was never issued.
Tampered(state) ==
    [i \in 1..Len(state) |->
        IF IsCiphertext(state[i]) THEN [ct |-> state[i].ct, authentic |-> FALSE] ELSE state[i]]
RequestStates ==
    {None, Some(Str(<<"x">>)), Some(Str(<<"#", "x">>)), Some(Str(<<"#", NonAscii>>))}
    \cup (IF issued = None THEN {} ELSE {Some(Val(issued).state), Some(Tampered(Val(issued).state))})

\* A dict with one item, and the union of two dicts (the left one wins).
Item(k, v) == k :> v
EmptyDict == << >>

\* A filter that keeps every credential.
KeepAll(creds, to_keep) == creds

\* {k: v for k, v in credentials.items() if k in to_keep} (line 349)
filter_credentials(creds, to_keep) == [k \in (DOMAIN creds) \cap to_keep |-> creds[k]]

\* The host's session: None, or a dict; its 'nagare.credentials' are written by
\* store_credentials only, which keeps sub and nothing else.
Sessions ==
    { None,
      Some(EmptyDict),
      Some(Item("user", "data")),
      Some(Item("nagare.credentials", Item("sub", "carol"))),
      Some(Item("nagare.credentials", EmptyDict)) }

\* What the base class's get_principal finds (its cookie): nobody, or a user.
BaseResults ==
    { [principal |-> None, credentials |-> EmptyDict],
      [principal |-> Some("bob"), credentials |-> Item("sub", "bob")] }

\* ID tokens: whether the token parses, the kid of its header, the key that
\* signed it, whether its algorithm is among self.algorithms, whether its claims
\* stand (audience, issuer, expiry, at_hash), and its claims.
IdToken(parses, kid, signer, alg_ok, claims_ok, claims) ==
    [parses |-> parses, kid |-> kid, signer |-> signer, alg_ok |-> alg_ok,
     claims_ok |-> claims_ok, claims |-> claims]
AliceClaims ==
    [sub |-> "alice", iss |-> "idp", aud |-> "client", exp |-> "later", iat |-> "earlier",
     email |-> "alice@idp"]
IdTokens ==
    { IdToken(TRUE, Some("k1"), "m1", TRUE, TRUE, AliceClaims),
      IdToken(TRUE, None, "m2", TRUE, TRUE, [sub |-> "alice", aud |-> "client", nonce |-> "n"]),
      IdToken(TRUE, Some("k1"), "m3", TRUE, TRUE, AliceClaims),
      IdToken(TRUE, Some("k1"), "m1", TRUE, FALSE, AliceClaims),
      IdToken(TRUE, Some("k1"), "m1", FALSE, TRUE, AliceClaims),
      IdToken(FALSE, None, "m1", TRUE, TRUE, AliceClaims) }

\* What the token endpoint answers: nothing (a network failure or a timeout), or
\* a status with a body.
Unanswered == [answered |-> FALSE]
ErrorAnswer(status, body) == [answered |-> TRUE, status |-> status, json |-> body]
TokenAnswer(id_token, access_token, refresh_token) ==
    [answered |-> TRUE, status |-> 200,
     json |-> [id_token |-> id_token, access_token |-> access_token, refresh_token |-> refresh_token]]
TokenResponses ==
    { Unanswered,
      ErrorAnswer(400, [error |-> Some("invalid_grant"), error_description |-> None]),
      ErrorAnswer(500, [error |-> None, error_description |-> None]),
      ErrorAnswer(204, [error |-> None, error_description |-> None]),
      TokenAnswer(None, Some("at"), None) }
    \cup { TokenAnswer(Some(t), Some("at"), None) : t \in IdTokens }
    \cup { TokenAnswer(Some(t), a, Some("rt")) : t \in {IdToken(TRUE, Some("k1"), "m1", TRUE, TRUE, AliceClaims)},
                                                 a \in {None, Some("at")} }

\* ------------------------------------------------------------ login, pure parts

\* send_request raises (lines 185-194): no answer, or a status that
\* raise_for_status refuses.
SendRequestRaises(r) == ~r.answered \/ (r.status >= 400 /\ r.status < 600)

\* The key handed to jwt.decode: signing_keys.get(headers.get('kid'), signing_keys)
\* (line 378), as the set of the keys it stands for.
VerificationKeys(keys, kid) ==
    IF kid # None /\ Val(kid) \in DOMAIN keys THEN {keys[Val(kid)]}
    ELSE {keys[k] : k \in DOMAIN keys}

\* python-jose's verdict on an ID token: it parses, one of the keys made its
\* signature, its algorithm is accepted (any is when no list is given) and its
\* claims stand.
Verifies(id_token, keys, algorithms_given) ==
    /\ id_token.parses
    /\ id_token.signer \in keys
    /\ (algorithms_given => id_token.alg_ok)
    /\ id_token.claims_ok

\* Claims taken from the ID token whatever the verification says.
UnverifiedClaims(id_token, keys, is_secure) == Some(id_token.claims)

\* Lines 376-394: the claims of the ID token, None when a JOSEError was caught.
DecodedClaims(id_token, keys, is_secure) ==
    IF Verifies(id_token, VerificationKeys(keys, id_token.kid), is_secure)
    THEN Some(id_token.claims)
    ELSE None

\* Lines 396-399: the tokens of the answer are added to the claims.
WithTokens(claims, tokens) ==
    (IF tokens.refresh_token = None THEN EmptyDict ELSE Item("refresh_token", Val(tokens.refresh_token)))
        @@ Item("access_token", Val(tokens.access_token)) @@ claims

\* '%05d' % n
ZeroPadded(n, width) ==
    LET sign == IF n < 0 THEN <<"-">> ELSE << >>
        digits == FormatNat(IF n < 0 THEN 0 - n ELSE n)
        missing == width - Len(sign) - Len(digits)
    IN  sign \o [i \in 1..(IF missing > 0 THEN missing ELSE 0) |-> "0"] \o digits

\* retrieve_credentials (lines 340-345): the principal and the credentials.
retrieve_credentials(sess, in_cookie) ==
    IF in_cookie \/ sess = None \/ Val(sess) = EmptyDict
    THEN [principal |-> None, credentials |-> EmptyDict]
    ELSE LET creds == IF "nagare.credentials" \in DOMAIN Val(sess)
                      THEN Val(sess)["nagare.credentials"] ELSE EmptyDict
         IN  [principal |-> Get(creds, "sub"), credentials |-> creds]

\* store_credentials (lines 351-353): the session afterwards.
store_credentials(sess, creds, in_cookie) ==
    IF ~in_cookie /\ sess # None /\ Val(sess) # EmptyDict
    THEN Some(Item("nagare.credentials", filter_credentials(creds, {"sub"})) @@ Val(sess))
    ELSE sess

\* ------------------------------------------------------------------ the login

\* The signing keys of a started service, fetched from a document of two keys.
LoginKeys == KeyMapping(<< Jwk(Some("k1"), "m1"), Jwk(Some("k2"), "m2") >>)

\* The session id and state id that get_principal is called with.
CallIds == { [session_id |-> 0, state_id |-> MaxId], [session_id |-> MaxId, state_id |-> 0] }

LoginInit ==
    /\ NoHost
    /\ cookie \in BOOLEAN
    /\ secure \in BOOLEAN
    /\ NoLogin
    /\ now = StartTime
    /\ endpoints = Configured([authorization_endpoint |-> "cfg/auth", token_endpoint |-> "cfg/token"])
    /\ jwks_uri = Some("cfg/jwks")
    /\ issuer = Some("cfg/issuer")
    /\ jwks_expiration = None
    /\ jwks_lock = None
    /\ signing_keys = LoginKeys
    /\ pc = [t \in Threads |-> IF t = Main THEN "done" ELSE "idle"]
    /\ exc = [t \in Threads |-> "none"]
    /\ certs = [t \in Threads |-> None]
    /\ outdated = [t \in Threads |-> FALSE]
    /\ lastRefresh = None

\* create_auth_request (lines 202-217), called by Login.render: the state
\* parameter of the redirect is kept, with the ids it was made from.
CreateAuthRequest ==
    /\ lpc = "idle"
    /\ \E session_id \in Ids, state_id \in Ids, action_id \in ActionIds :
          issued' = Some([state |-> StateParameter(session_id, state_id, action_id),
                          session_id |-> session_id, state_id |-> state_id, action_id |-> action_id])
    /\ UNCHANGED <<cookie, secure, lpc, lexc, request, ids, session, auth, response, credentials,
                   new_response, query_string, logged, result, decoded, exchanged>>
    /\ UNCHANGED keyVars
    /\ uses' = 0
    /\ UNCHANGED <<discovery, consulted, baked, unbaked, left>>

\* get_principal is called (lines 406-408) for a request and a session.
GetPrincipal ==
    /\ lpc = "idle"
    /\ \E code \in Codes, state \in RequestStates : request' = Some([code |-> code, state |-> state])
    /\ \E call \in CallIds : ids' = Some(call)
    /\ session' \in Sessions
    /\ lpc' = "is_auth_response"
    /\ UNCHANGED <<cookie, secure, issued, lexc, auth, response, credentials, new_response,
                   query_string, logged, result, decoded, exchanged>>
    /\ UNCHANGED keyVars
    /\ UNCHANGED hostVars

\* Lines 410-411: is_auth_response, and the test of the code it returns.
GetPrincipalAuthResponse ==
    /\ lpc = "is_auth_response"
    /\ LET r == IsAuthResponse(Val(request))
       IN  /\ decoded' = r.decoded
           /\ IF r.error # "none"
              THEN lpc' = "raised" /\ lexc' = r.error /\ auth' = auth
              ELSE /\ auth' = Some([code |-> r.code, session_id |-> r.session_id,
                                    state_id |-> r.state_id, action_id |-> r.action_id])
                   /\ lpc' = IF TruthyStr(r.code) THEN "request_credentials" ELSE "fallback"
                   /\ lexc' = lexc
    /\ UNCHANGED <<cookie, secure, issued, request, ids, session, response, credentials,
                   new_response, query_string, logged, result, exchanged>>
    /\ UNCHANGED keyVars
    /\ uses' = IF IsAuthResponse(Val(request)).decoded /\ uses < MaxUses THEN uses + 1 ELSE uses
    /\ UNCHANGED <<discovery, consulted, baked, unbaked, left>>

\* request_credentials, the exchange (lines 356-371): the token request is sent
\* and the status of the answer looked at.
RequestCredentials ==
    /\ lpc = "request_credentials"
    /\ exchanged' = TRUE
    /\ \E r \in TokenResponses :
          /\ response' = Some(r)
          /\ IF SendRequestRaises(r)
             THEN /\ lpc' = "raised"
                  /\ lexc' = IF r.answered THEN "HTTPError" ELSE "TransportError"
                  /\ logged' = logged
             ELSE IF r.status = 400
             THEN /\ lpc' = "fallback"
                  /\ logged' = Append(logged, <<"error", r.json.error, r.json.error_description>>)
                  /\ lexc' = lexc
             ELSE IF r.status # 200
             THEN /\ lpc' = "fallback"
                  /\ logged' = Append(logged, <<"Authentication error">>)
                  /\ lexc' = lexc
             ELSE /\ lpc' = "verify"
                  /\ UNCHANGED <<logged, lexc>>
    /\ UNCHANGED <<cookie, secure, issued, request, ids, session, auth, credentials,
                   new_response, query_string, result, decoded>>
    /\ UNCHANGED keyVars
    /\ UNCHANGED hostVars

\* request_credentials, the ID token (lines 373-404), and the redirect that
\* get_principal builds when it got credentials (lines 413-414).
VerifyIdToken ==
    /\ lpc = "verify"
    /\ LET tokens == Val(response).json
       IN  IF tokens.id_token = None
           THEN /\ lpc' = "raised"
                /\ lexc' = "KeyError"
                /\ UNCHANGED <<credentials, new_response, query_string, logged>>
           ELSE LET claims == DecodedClaims(Val(tokens.id_token), signing_keys, secure)
                IN  IF claims = None
                    THEN /\ lpc' = "fallback"
                         /\ logged' = Append(logged, <<"Invalid id_token">>)
                         /\ UNCHANGED <<credentials, new_response, query_string, lexc>>
                    ELSE IF tokens.access_token = None
                    THEN /\ lpc' = "raised"
                         /\ lexc' = "KeyError"
                         /\ UNCHANGED <<credentials, new_response, query_string, logged>>
                    ELSE /\ credentials' = WithTokens(Val(claims), tokens)
                         /\ query_string' = IF Val(auth).action_id # << >>
                                            THEN Some(Val(auth).action_id \o <<"=">>)
                                            ELSE query_string
                         /\ new_response' = Some([_s |-> Val(ids).session_id,
                                                  _c |-> ZeroPadded(Val(ids).state_id, 5)])
                         /\ lpc' = "fallback"
                         /\ UNCHANGED <<logged, lexc>>
    /\ UNCHANGED <<cookie, secure, issued, request, ids, session, auth, response, result,
                   decoded, exchanged>>
    /\ UNCHANGED keyVars
    /\ UNCHANGED hostVars

\* A test that finds no principal in any session.
NoPrincipal(principal) == FALSE

\* `if not principal` (line 418), negated.
HasPrincipal(principal) == TruthyStr(principal)

\* Lines 416-421: without credentials, those of the session are read, and the
\* base class is asked when they name no principal.
Fallback ==
    /\ lpc = "fallback"
    /\ IF credentials = EmptyDict
       THEN LET found == retrieve_credentials(session, cookie)
            IN  IF HasPrincipal(found.principal)
                THEN credentials' = found.credentials
                ELSE \E base \in BaseResults : credentials' = base.credentials
       ELSE credentials' = credentials
    /\ lpc' = "store"
    /\ UNCHANGED <<cookie, secure, issued, lexc, request, ids, session, auth, response,
                   new_response, query_string, logged, result, decoded, exchanged>>
    /\ UNCHANGED keyVars
    /\ consulted' = IF credentials # EmptyDict THEN << >>
                     ELSE IF HasPrincipal(retrieve_credentials(session, cookie).principal)
                     THEN <<"session">>
                     ELSE <<"session", "base">>
    /\ UNCHANGED <<discovery, uses, baked, unbaked, left>>

\* Lines 423-426: the credentials are stored and returned.
StoreAndReturn ==
    /\ lpc = "store"
    /\ session' = IF credentials # EmptyDict
                  THEN store_credentials(session, credentials, cookie) ELSE session
    /\ result' = Some([principal |-> Get(credentials, "sub"), credentials |-> credentials,
                       response |-> new_response])
    /\ lpc' = "returned"
    /\ UNCHANGED <<cookie, secure, issued, lexc, request, ids, auth, response, credentials,
                   new_response, query_string, logged, decoded, exchanged>>
    /\ UNCHANGED keyVars
    /\ UNCHANGED hostVars

\* The request is over: get_principal has returned or raised to the host.
EndRequest ==
    /\ lpc \in {"returned", "raised"}
    /\ lpc' = "idle"
    /\ lexc' = "none"
    /\ request' = None
    /\ ids' = None
    /\ session' = None
    /\ auth' = None
    /\ response' = None
    /\ credentials' = EmptyDict
    /\ new_response' = None
    /\ query_string' = None
    /\ logged' = << >>
    /\ result' = None
    /\ decoded' = FALSE
    /\ exchanged' = FALSE
    /\ UNCHANGED <<cookie, secure, issued>>
    /\ UNCHANGED keyVars
    /\ consulted' = << >>
    /\ UNCHANGED <<discovery, uses, baked, unbaked, left>>

LoginNext ==
    \/ CreateAuthRequest
    \/ GetPrincipal
    \/ GetPrincipalAuthResponse
    \/ RequestCredentials
    \/ VerifyIdToken
    \/ Fallback
    \/ StoreAndReturn
    \/ EndRequest

LoginSpec == LoginInit /\ [][LoginNext]_vars

\* ------------------------------------------------------- cookies and logout

\* The base class's cookie (cookie_auth's to_cookie and from_cookie): the
\* principal and the other credentials, sealed; from_cookie gives both back.
BaseToCookie(principal, creds) == [kind |-> "sealed", principal |-> principal, credentials |-> creds]
BaseFromCookie(c) == [principal |-> c.principal, credentials |-> c.credentials]

\* jwt.encode(credentials, self.jwk_key, 'HS256') and jwt.decode of it with the
\* same key: a signed token of the claims, and the claims.
JwtEncode(claims) == [kind |-> "jwt", claims |-> claims]
JwtDecode(c) == c.claims

\* to_cookie (lines 320-328): the cookie, None when credentials.pop('sub')
\* raises KeyError.
to_cookie(creds, encrypted) ==
    LET kept == filter_credentials(creds, {"sub"})
    IN  IF encrypted
        THEN IF "sub" \in DOMAIN kept
             THEN Some(BaseToCookie(kept["sub"], [k \in (DOMAIN kept) \ {"sub"} |-> kept[k]]))
             ELSE None
        ELSE Some(JwtEncode(kept))

\* from_cookie (lines 330-338): the principal and the credentials, None when
\* credentials['sub'] raises KeyError.
from_cookie(c, encrypted) ==
    LET creds == IF encrypted
                 THEN Item("sub", BaseFromCookie(c).principal) @@ BaseFromCookie(c).credentials
                 ELSE filter_credentials(JwtDecode(c), {"sub"})
    IN  IF "sub" \in DOMAIN creds
        THEN Some([principal |-> creds["sub"], credentials |-> creds])
        ELSE None

\* The credentials the host hands to to_cookie.
CredentialSets ==
    { Item("sub", "u1"),
      [sub |-> "u1", access_token |-> "t", extra_claim |-> "x"],
      [sub |-> "", access_token |-> "t"],
      WithTokens(AliceClaims, TokenAnswer(None, Some("at"), Some("rt")).json),
      Item("access_token", "t") }

\* What the end-session endpoint answers.
LogoutAnswers ==
    { Unanswered,
      ErrorAnswer(204, EmptyDict),
      ErrorAnswer(200, EmptyDict),
      ErrorAnswer(400, EmptyDict) }

\* The access tokens logout is given.
AccessTokens == {None, Some(""), Some("at")}

\* The end-session request is sent however the endpoint is configured.
RequestAlways(access_token, url) == access_token # None

\* Lines 442-444: the end-session request is sent.
EndSessionRequested(access_token, url) == access_token # None /\ TruthyStr(url)

\* logout (lines 431-448): whether the end-session request was sent, whether
\* send_request raised, and the status returned.
logout(base_status, access_token, url, answer) ==
    IF ~EndSessionRequested(access_token, url)
    THEN [sent |-> FALSE, raised |-> FALSE, status |-> base_status]
    ELSE IF SendRequestRaises(answer)
    THEN [sent |-> TRUE, raised |-> TRUE, status |-> FALSE]
    ELSE [sent |-> TRUE, raised |-> FALSE, status |-> base_status /\ answer.status = 204]

\* A started service, configured one way or another, that the host calls.
HostInit ==
    /\ NoHost
    /\ cookie = TRUE
    /\ secure = TRUE
    /\ NoLogin
    /\ now = StartTime
    /\ \E c \in Configurations :
          /\ endpoints = c.endpoints
          /\ jwks_uri = c.jwks_uri
          /\ issuer = c.issuer
    /\ jwks_expiration = None
    /\ jwks_lock = None
    /\ signing_keys = << >>
    /\ pc = [t \in Threads |-> IF t = Main THEN "done" ELSE "idle"]
    /\ exc = [t \in Threads |-> "none"]
    /\ certs = [t \in Threads |-> None]
    /\ outdated = [t \in Threads |-> FALSE]
    /\ lastRefresh = None

\* The host calls to_cookie.
ToCookie ==
    /\ \E creds \in CredentialSets, encrypted \in BOOLEAN :
          baked' = Some([credentials |-> creds, encrypted |-> encrypted,
                         cookie |-> to_cookie(creds, encrypted)])
    /\ unbaked' = None
    /\ UNCHANGED <<discovery, uses, consulted, left>>
    /\ UNCHANGED <<keyVars, loginVars>>

\* The host calls from_cookie with the cookie that to_cookie made.
FromCookie ==
    /\ baked # None
    /\ Val(baked).cookie # None
    /\ unbaked = None
    /\ unbaked' = Some(from_cookie(Val(Val(baked).cookie), Val(baked).encrypted))
    /\ UNCHANGED <<discovery, uses, consulted, baked, left>>
    /\ UNCHANGED <<keyVars, loginVars>>

\* The host calls logout.
Logout ==
    /\ \E base_status \in BOOLEAN, access_token \in AccessTokens, answer \in LogoutAnswers :
          left' = Some([base_status |-> base_status, access_token |-> access_token,
                        url |-> endpoints["end_session_endpoint"], answer |-> answer,
                        outcome |-> logout(base_status, access_token,
                                           endpoints["end_session_endpoint"], answer)])
    /\ UNCHANGED <<discovery, uses, consulted, baked, unbaked>>
    /\ UNCHANGED <<keyVars, loginVars>>

HostNext ==
    \/ ToCookie
    \/ FromCookie
    \/ Logout

HostSpec == HostInit /\ [][HostNext]_vars

\* ---------------------------------------------------- claims, cookies and logout

\* The contents of a cookie.
CookieContents(c) ==
    IF c.kind = "jwt" THEN c.claims ELSE Item("sub", c.principal) @@ c.credentials

\* C11: for credentials that hold sub, in both cookie modes, from_cookie of the
\* cookie to_cookie made returns the principal sub and the credentials {sub: sub},
\* and the cookie holds nothing but sub.
C11_CookieRoundTrip ==
    (baked # None /\ "sub" \in DOMAIN Val(baked).credentials) =>
        LET c == Val(baked).credentials
        IN  /\ Val(baked).cookie # None
            /\ CookieContents(Val(Val(baked).cookie)) = Item("sub", c["sub"])
            /\ unbaked # None =>
                  Val(unbaked) = Some([principal |-> c["sub"],
                                       credentials |-> Item("sub", c["sub"])])

\* C11, witness: credentials with an access token and another claim went through
\* a sealed cookie and came back.
C11_Witness ==
    /\ baked # None /\ unbaked # None
    /\ Val(baked).encrypted
    /\ Val(baked).credentials = [sub |-> "u1", access_token |-> "t", extra_claim |-> "x"]
    /\ Val(unbaked) # None

\* What logout did, when it was called.
Outcome == Val(left).outcome
\* logout returned success.
ReturnedSuccess == ~Outcome.raised /\ Outcome.status
\* The provider answered the end-session request with status 204.
Answered204 == Outcome.sent /\ Val(left).answer.answered /\ Val(left).answer.status = 204

\* C12, as stated: logout returns success exactly when the base logout succeeded
\* and, if an access token was given, the provider answered the end-session
\* request with 204; without an access token no request is sent and the result is
\* that of the base logout.
C12_LogoutResult ==
    left # None =>
        /\ ReturnedSuccess <=>
              (Val(left).base_status /\ (Val(left).access_token # None => Answered204))
        /\ Val(left).access_token = None =>
              (~Outcome.sent /\ ~Outcome.raised /\ Outcome.status = Val(left).base_status)

\* C12, amended: logout returns success exactly when the base logout succeeded
\* and, if an access token was given and an end-session endpoint is configured,
\* the provider answered the end-session request with 204; without an access token
\* or without an end-session endpoint no request is sent and the result is that of
\* the base logout.
C12_LogoutResultWhenConfigured ==
    left # None =>
        LET asked == Val(left).access_token # None /\ TruthyStr(Val(left).url)
        IN  /\ ReturnedSuccess <=> (Val(left).base_status /\ (asked => Answered204))
            /\ ~asked => (~Outcome.sent /\ ~Outcome.raised /\ Outcome.status = Val(left).base_status)
            /\ Outcome.sent => asked

\* C12, witness: logout was given an access token, the configured end-session
\* endpoint answered 204 and logout returned success.
C12_Witness ==
    /\ left # None
    /\ Val(left).access_token = Some("at")
    /\ TruthyStr(Val(left).url)
    /\ Answered204
    /\ ReturnedSuccess

\* ------------------------------------------------------------ claims, login

\* EXCLUDED_CLAIMS of class Authentication (lines 80-84).
EXCLUDED_CLAIMS ==
    {"iss", "aud", "exp", "iat", "auth_time", "nonce", "acr", "amr", "azp"}
        \cup {"session_state", "typ", "nbf"}

\* is_auth_response has returned or raised.
AuthResponseSeen == lpc \notin {"idle", "is_auth_response"}
\* The request carries a code and the state parameter that was issued.
HonestCallback ==
    /\ request # None /\ issued # None
    /\ TruthyStr(Val(request).code)
    /\ Val(request).state = Some(Val(issued).state)
\* The request carries a code and a state parameter that was not issued as it is.
ForgedCallback ==
    /\ request # None
    /\ TruthyStr(Val(request).code)
    /\ Val(request).state # None
    /\ (issued = None \/ Val(request).state # Some(Val(issued).state))
\* The token endpoint answered with a status other than 200.
ProviderError == response # None /\ Val(response).answered /\ Val(response).status # 200
\* The token endpoint answered 200 with an ID token that passes verification.
TokenVerified ==
    /\ response # None
    /\ Val(response).answered
    /\ Val(response).status = 200
    /\ Val(response).json.id_token # None
    /\ LET id_token == Val(Val(response).json.id_token)
       IN  Verifies(id_token, VerificationKeys(signing_keys, id_token.kid), secure)
\* Credentials that come from a token response: only those carry an access
\* token or the subject of an ID token.
FromTokenResponse(creds) ==
    \/ "access_token" \in DOMAIN creds
    \/ "refresh_token" \in DOMAIN creds
    \/ ("sub" \in DOMAIN creds /\ creds["sub"] = "alice")
\* The credentials kept in the session.
StoredCredentials ==
    IF session # None /\ "nagare.credentials" \in DOMAIN Val(session)
    THEN Val(session)["nagare.credentials"] ELSE EmptyDict

\* C3: get_principal sends the token request only after is_auth_response has
\* decoded the state parameter of the request.
C3_DecodeBeforeExchange == exchanged => decoded

\* C4: when the token endpoint answers the code exchange with 400 or another
\* status that is not 200, get_principal logs the error and does not raise.
C4_ProviderErrorFallsBack == ProviderError => (lpc # "raised" /\ logged # << >>)

\* C5: for a callback that carries a code and the state parameter made by
\* create_auth_request, is_auth_response returns the code unchanged and the
\* session id, state id and action id the parameter was made from.
C5_StateRoundTrip ==
    (HonestCallback /\ AuthResponseSeen) =>
        auth = Some([code |-> Val(request).code,
                     session_id |-> Val(issued).session_id,
                     state_id |-> Val(issued).state_id,
                     action_id |-> IF Val(issued).action_id = None THEN << >>
                                   ELSE Val(Val(issued).action_id)])

\* C5, witness: is_auth_response has decoded a state parameter made from the
\* largest ids and an action id.
C5_Witness ==
    /\ HonestCallback /\ AuthResponseSeen
    /\ auth # None
    /\ Val(auth).session_id = MaxId /\ Val(auth).state_id = MaxId
    /\ Val(auth).action_id = <<"_", "a", "7">>

\* C6: for a state parameter that was tampered with or is malformed,
\* is_auth_response raises nothing and returns no code and no ids, and
\* get_principal sends no token request.
C6_SilentFallback ==
    (ForgedCallback /\ AuthResponseSeen) =>
        /\ auth = Some([code |-> None, session_id |-> 0, state_id |-> 0, action_id |-> << >>])
        /\ ~exchanged

\* C7: credentials that come from a token response are held, stored in the
\* session or returned, and the redirect is built, only when the ID token of that
\* response passed verification.
C7_PersistAfterVerify ==
    (\/ FromTokenResponse(credentials)
     \/ FromTokenResponse(StoredCredentials)
     \/ new_response # None
     \/ query_string # None
     \/ (result # None /\ (FromTokenResponse(Val(result).credentials) \/ Val(result).response # None)))
    => TokenVerified

\* C7, witness: get_principal has returned after a verified login whose subject
\* it stored in the session.
C7_Witness ==
    /\ lpc = "returned"
    /\ TokenVerified
    /\ Val(result).response # None
    /\ StoredCredentials = Item("sub", "alice")

\* C10: after a verified login, the credentials get_principal returns hold none
\* of the excluded claims, and hold sub.
C10_ReservedClaimsStripped ==
    (lpc = "returned" /\ TokenVerified /\ Val(result).response # None) =>
        /\ (DOMAIN Val(result).credentials) \cap EXCLUDED_CLAIMS = {}
        /\ "sub" \in DOMAIN Val(result).credentials

\* C15: the state parameter made by create_auth_request is decoded by one
\* callback at most: a second callback that presents it is not accepted.
C15_SingleUse == uses <= 1

\* The session named a principal when get_principal read it.
SessionPrincipal == retrieve_credentials(session, cookie).principal

C17_RedirectCarriesRecoveredIds ==
    (new_response # None /\ decoded) =>
        /\ Val(new_response)._s = Val(auth).session_id
        /\ Val(new_response)._c = ZeroPadded(Val(auth).state_id, 5)
        /\ query_string # None <=> Val(auth).action_id # << >>

====
